---- MODULE Spec2Model ----
(***************************************************************************)
(* The staged analysis pipeline of YenSense.AI: the shared PipelineContext, *)
(* the eight stages and the orchestrator AnalysisPipeline.run with its      *)
(* abort policy.  Python dicts are functions over a finite set of string   *)
(* keys, lists are sequences, "" and [] are the empty sequence / "".       *)
(***************************************************************************)
EXTENDS Integers, Sequences, FiniteSets, TLC

VARIABLES
    pc,         \* position of AnalysisPipeline.run
    i,          \* loop variable of `for i, stage in enumerate(self.stages, 1)`
    ctx,        \* the PipelineContext bound to the local `context`
    aborted,    \* the loop was left through `break`
    hist,       \* call instrumentation: one record per stage.execute call
    fetched,    \* what fetch_all_data did in stage 1
    stubErrs,   \* diagnostics an instrumented stage adds per call (0: the shipped stages)
    canned,     \* the collaborators are test doubles with one fixed reply each
    persisted,  \* outcome of the optional _save_context
    stages_to_run  \* the argument of run_partial (empty for run)

vars == <<pc, i, ctx, aborted, hist, fetched, stubErrs, canned, persisted, stages_to_run>>

(***************************************************************************)
(* Bounds of the model                                                     *)
(***************************************************************************)
MaxStubErrs == 2

MaxSections == 4
MaxQuestionsIn == 5
MaxGapLines == 8
MaxValLines == 4
MaxTitlePad == 2
MaxEvidenceLines == 6
MaxSelection == 3

(***************************************************************************)
(* Program constants                                                       *)
(***************************************************************************)
NumStages == 8
ErrorCeiling == 10
CriticalStages == 2
LowConfidence == 30
DefaultSentiment == 50
DefaultConfidence == 70
ValidityThreshold == 50
MaxEvidence == 5
MinQuestions == 3
MaxQuestions == 7
FallbackPlanSize == 3
MaxAnalyses == 5
MinTitleLen == 10

(***************************************************************************)
(* Dict helpers                                                            *)
(***************************************************************************)
EmptyDict == [k \in {} |-> 0]

IsEmpty(d) == DOMAIN d = {}

Get(d, k, default) == IF k \in DOMAIN d THEN d[k] ELSE default

Last(s) == s[Len(s)]

Reverse(s) == [k \in 1..Len(s) |-> s[Len(s) + 1 - k]]

Take(s, n) == SubSeq(s, 1, IF Len(s) < n THEN Len(s) ELSE n)

(***************************************************************************)
(* PipelineContext                                                         *)
(***************************************************************************)
PipelineContext ==
    [ raw_data           |-> EmptyDict,
      summary            |-> "",
      enhanced_data      |-> EmptyDict,
      questions          |-> <<>>,
      analysis_plan      |-> <<>>,
      calculations       |-> EmptyDict,
      validation_results |-> EmptyDict,
      report_sections    |-> EmptyDict,
      final_report       |-> <<>>,
      title              |-> <<>>,
      stage_outputs      |-> {},
      errors             |-> <<>> ]

add_stage_output(c, name) == [c EXCEPT !.stage_outputs = @ \cup {name}]

\* mutant: the new entry replaces the list
add_error_replace(c, e) == [c EXCEPT !.errors = <<e>>]

add_error(c, e) == [c EXCEPT !.errors = Append(@, e)]

\* mutant: handle_error records the error twice
handle_error_twice(c, stage) ==
    add_error(add_error(c, [stage |-> stage, by |-> "stage"]), [stage |-> stage, by |-> "stage"])

\* BaseStage.handle_error: one "Error in <stage>" entry, the context returned
handle_error(c, stage) == add_error(c, [stage |-> stage, by |-> "stage"])

StageNames ==
    << "DataCollectionStage", "InitialSummaryStage", "EvidenceGatheringStage",
       "GapIdentificationStage", "ReasoningStage", "CalculationStage",
       "ValidationStage", "ReportGenerationStage" >>

OutputNames ==
    << "data_collection", "initial_summary", "evidence_gathering",
       "gap_identification", "reasoning", "calculation", "validation",
       "report_generation" >>

\* the context field(s) each stage assigns
Owned ==
    << {"raw_data"}, {"summary"}, {"enhanced_data"}, {"questions"},
       {"analysis_plan"}, {"calculations"}, {"validation_results"},
       {"report_sections", "final_report", "title"} >>


(***************************************************************************)
(* Stage 1: DataCollectionStage                                            *)
(***************************************************************************)
\* what DataFetcher.fetch_all_data may hand back: the mapping it builds, a
\* mapping without any category, or a partial one
FullData ==
    [ fx_rates        |-> ("USD/JPY" :> 14725) @@ ("EUR/JPY" :> 15890),
      macro_data      |-> [japan_cpi |-> 1065, japan_gdp |-> 4231],
      boj_news        |-> <<"boj headline">>,
      reuters_news    |-> <<>>,
      nikkei_news     |-> <<>>,
      sentiment_score |-> 65,
      timestamp       |-> "ts" ]

\* a mapping with one category only
RatesOnly == [fx_rates |-> FullData.fx_rates]

FetchResults == {EmptyDict, RatesOnly, FullData}

\* mutant: the fetched mapping is stored as it came
collect_raw_data_as_fetched(all_data) == all_data

\* lines 39-54: the six categories, each with its default
collect_raw_data(all_data) ==
    [ fx_rates        |-> Get(all_data, "fx_rates", EmptyDict),
      macro_data      |-> Get(all_data, "macro_data", EmptyDict),
      boj_news        |-> Get(all_data, "boj_news", <<>>),
      reuters_news    |-> Get(all_data, "reuters_news", <<>>),
      nikkei_news     |-> Get(all_data, "nikkei_news", <<>>),
      sentiment_score |-> Get(all_data, "sentiment_score", DefaultSentiment) ]

(***************************************************************************)
(* Stage 2: InitialSummaryStage                                            *)
(***************************************************************************)
\* _call_openai returns the model's text or the fixed fallback sentence
FallbackText == "Market conditions remain in focus"

SummaryTexts == {FallbackText}

(***************************************************************************)
(* Stage 3: EvidenceGatheringStage                                         *)
(* A response line is described by whether it is blank, whether it starts  *)
(* with '#', and which keywords occur in its lower-cased text.             *)
(***************************************************************************)
EvLine(blank, hash, kw) == [blank |-> blank, hash |-> hash, kw |-> kw]

RECURSIVE evidence_lines(_)
evidence_lines(lines) ==
    IF lines = <<>> THEN <<>>
    ELSE IF ~Head(lines).blank /\ ~Head(lines).hash
         THEN <<Head(lines).kw>> \o evidence_lines(Tail(lines))
         ELSE evidence_lines(Tail(lines))

\* mutant: every topic line is kept
identify_evidence_needed_no_cap(response) == evidence_lines(response)

identify_evidence_needed(response) == Take(evidence_lines(response), MaxEvidence)

\* the if/elif chain of _gather_evidence for one topic; "" when no rule matches
evidence_rule(kw) ==
    IF "historical" \in kw /\ "usd/jpy" \in kw THEN "historical_usdjpy"
    ELSE IF "treasury" \in kw \/ "yields" \in kw THEN "us_yields"
    ELSE IF "oil" \in kw \/ "energy" \in kw THEN "oil_prices"
    ELSE IF "vix" \in kw \/ "volatility" \in kw THEN "vix"
    ELSE IF "boj" \in kw /\ ("policy" \in kw \/ "statement" \in kw) THEN "boj_policy"
    ELSE ""

\* the placeholder record stored under each key (prices in hundredths)
evidence_record(key) ==
    CASE key = "historical_usdjpy" ->
            ("1_month_ago" :> 14550) @@ ("3_months_ago" :> 14225) @@ ("1_year_ago" :> 13500)
      [] key = "us_yields"   -> ("2Y" :> 475) @@ ("10Y" :> 425) @@ ("spread_2s10s" :> -50)
      [] key = "oil_prices"  -> ("WTI" :> 7550) @@ ("Brent" :> 7925) @@ ("change_1d" :> 120)
      [] key = "vix"         -> ("level" :> 1550) @@ ("change_1d" :> -50) @@ ("20d_avg" :> 1620)
      [] key = "boj_policy"  -> ("rate" :> -10) @@ ("ycc_target" :> 0) @@
                                ("last_meeting" :> "2025-09-01") @@ ("stance" :> "Accommodative")
      [] key = "market_context" ->
            ("note" :> "Limited additional data available") @@
            ("suggestion" :> "Analysis will proceed with available information")

gather_evidence(evidence_needed) ==
    LET keys == {evidence_rule(evidence_needed[n]) : n \in 1..Len(evidence_needed)} \ {""}
        all  == IF keys = {} THEN {"market_context"} ELSE keys
    IN  [k \in all |-> evidence_record(k)]

\* the three lines of _fallback_analysis
FallbackEvidence ==
    << EvLine(FALSE, FALSE, {"policy"}), EvLine(FALSE, FALSE, {"boj"}),
       EvLine(FALSE, FALSE, {"policy"}) >>

EvidenceResponses ==
    { FallbackEvidence,
      << EvLine(FALSE, TRUE, {"oil"}), EvLine(FALSE, FALSE, {"historical", "usd/jpy"}),
         EvLine(TRUE, FALSE, {}), EvLine(FALSE, FALSE, {"treasury", "yields"}) >> }

(***************************************************************************)
(* Stage 4: GapIdentificationStage                                         *)
(* A response line is its text and whether the text contains '?'.          *)
(***************************************************************************)
GapLine(text, qmark) == [text |-> text, qmark |-> qmark]

FallbackQuestions ==
    << "What is driving the current USD/JPY level relative to rate differentials?",
       "How does current market positioning compare to historical norms?",
       "What are the key risks to the current market consensus?" >>

RECURSIVE question_lines(_)
question_lines(lines) ==
    IF lines = <<>> THEN <<>>
    ELSE IF Head(lines).qmark
         THEN <<Head(lines).text>> \o question_lines(Tail(lines))
         ELSE question_lines(Tail(lines))

\* mutant: the list is returned whole
identify_gaps_no_cap(response) ==
    LET parsed == question_lines(response)
    IN  IF Len(parsed) < MinQuestions THEN parsed \o FallbackQuestions ELSE parsed

identify_gaps(response) ==
    LET parsed == question_lines(response)
        padded == IF Len(parsed) < MinQuestions THEN parsed \o FallbackQuestions ELSE parsed
    IN  Take(padded, MaxQuestions)

FallbackGaps ==
    << GapLine("Market conditions remain in focus", FALSE), GapLine("divergence", FALSE),
       GapLine("with attention to inflation trends", FALSE) >>

GapResponses == {FallbackGaps}

(***************************************************************************)
(* Stage 5: ReasoningStage                                                 *)
(* The response is the list of text blocks that follow each "Question"     *)
(* marker; a line of a block is the set of field markers found in its      *)
(* lower-cased text and the text after its first colon.                    *)
(***************************************************************************)
PlanLine(marks, val) == [marks |-> marks, val |-> val]

RECURSIVE scan_section(_, _)
scan_section(lines, item) ==
    IF lines = <<>> THEN item
    ELSE LET l == Head(lines)
             next == IF "analysis:" \in l.marks
                        THEN [item EXCEPT !.analysis = l.val]
                     ELSE IF "data needed:" \in l.marks \/ "data:" \in l.marks
                        THEN [item EXCEPT !.data_needed = l.val]
                     ELSE IF "insight:" \in l.marks \/ "tells us:" \in l.marks
                        THEN [item EXCEPT !.insight = l.val]
                     ELSE item
         IN  scan_section(Tail(lines), next)

\* mutant: an empty analysis is kept
parse_section_no_default(section, question) ==
    scan_section(section,
        [question |-> question, analysis |-> "", data_needed |-> "", insight |-> ""])

parse_section(section, question) ==
    LET item == scan_section(section,
                    [question |-> question, analysis |-> "", data_needed |-> "", insight |-> ""])
    IN  IF item.analysis = ""
        THEN [item EXCEPT !.analysis = "Compare current levels to historical averages"]
        ELSE item

fallback_item(q) ==
    [ question    |-> q,
      analysis    |-> "Analyze current vs historical levels",
      data_needed |-> "Current and historical data points",
      insight     |-> "Understand if current levels are unusual" ]

\* mutant: every block yields a record, also beyond the last question
parse_analysis_plan_all_sections(sections, questions) ==
    LET plan == [k \in 1..Len(sections) |->
                    parse_section(sections[k],
                        IF k <= Len(questions) THEN questions[k] ELSE "Unknown question")]
        head == Take(questions, FallbackPlanSize)
    IN  IF plan = <<>> THEN [k \in 1..Len(head) |-> fallback_item(head[k])] ELSE plan

\* mutant: the fallback plan covers every question
parse_analysis_plan_uncapped(sections, questions) ==
    LET n    == IF Len(sections) < Len(questions) THEN Len(sections) ELSE Len(questions)
        plan == [k \in 1..n |-> parse_section(sections[k], questions[k])]
    IN  IF plan = <<>> THEN [k \in 1..Len(questions) |-> fallback_item(questions[k])] ELSE plan

parse_analysis_plan(sections, questions) ==
    LET n    == IF Len(sections) < Len(questions) THEN Len(sections) ELSE Len(questions)
        plan == [k \in 1..n |-> parse_section(sections[k], questions[k])]
        head == Take(questions, FallbackPlanSize)
    IN  IF plan = <<>> THEN [k \in 1..Len(head) |-> fallback_item(head[k])] ELSE plan

\* _fallback_analysis has no "Question" marker: no block
FallbackReasoning == <<>>

ReasoningResponses ==
    { FallbackReasoning,
      << << PlanLine({}, "1: restated"), PlanLine({"analysis:"}, "compare spreads"),
            PlanLine({"data needed:", "data:"}, "yields"), PlanLine({"insight:"}, "carry") >>,
         << PlanLine({}, "2: restated"), PlanLine({"data:"}, "cpi") >> >> }

(***************************************************************************)
(* Stage 6: CalculationStage (amounts in hundredths, ratios in 1/10000)    *)
(***************************************************************************)
RoundDiv(a, b) == (2 * a + b) \div (2 * b)

\* mutant: the thresholds are inclusive
sentiment_interpretation_inclusive(sentiment) ==
    IF sentiment >= 60 THEN "Bullish"
    ELSE IF sentiment <= 40 THEN "Bearish"
    ELSE "Neutral"

sentiment_interpretation(sentiment) ==
    IF sentiment > 60 THEN "Bullish"
    ELSE IF sentiment < 40 THEN "Bearish"
    ELSE "Neutral"

calculate_basic_metrics(fx_rates, macro_data, enhanced) ==
    LET usd_jpy == Get(fx_rates, "USD/JPY", 14725)
        eur_jpy == Get(fx_rates, "EUR/JPY", 15890)
        m1 == IF ~IsEmpty(fx_rates) /\ usd_jpy # 0 /\ eur_jpy # 0
              THEN ("implied_eurusd" :> RoundDiv(eur_jpy * 10000, usd_jpy))
              ELSE EmptyDict
        m2 == IF ~IsEmpty(fx_rates) /\ "historical_usdjpy" \in DOMAIN enhanced
                 /\ "1_month_ago" \in DOMAIN enhanced["historical_usdjpy"]
              THEN LET h == enhanced["historical_usdjpy"]["1_month_ago"]
                   IN  ("usdjpy_1m_change" :> usd_jpy - h) @@
                       ("usdjpy_1m_change_pct" :> RoundDiv((usd_jpy - h) * 10000, h))
              ELSE EmptyDict
        m3 == IF "us_yields" \in DOMAIN enhanced /\ "10Y" \in DOMAIN enhanced["us_yields"]
              THEN ("rate_differential_10y" :> enhanced["us_yields"]["10Y"] - 25)
              ELSE EmptyDict
        sentiment == IF ~IsEmpty(fx_rates)
                     THEN Get(fx_rates, "sentiment_score", DefaultSentiment)
                     ELSE DefaultSentiment
    IN  m1 @@ m2 @@ m3 @@ ("sentiment_score" :> sentiment) @@
        ("sentiment_interpretation" :> sentiment_interpretation(sentiment))

AnalysisKeys == <<"analysis_1", "analysis_2", "analysis_3", "analysis_4", "analysis_5">>

\* mutant: the top-level sentiment_score of raw_data is handed to the metrics
perform_calculations_top_level(c, calc_text) ==
    LET items == Take(c.analysis_plan, MaxAnalyses)
        basic == calculate_basic_metrics(
                     ("sentiment_score" :> Get(c.raw_data, "sentiment_score", DefaultSentiment))
                         @@ Get(c.raw_data, "fx_rates", EmptyDict),
                     Get(c.raw_data, "macro_data", EmptyDict),
                     c.enhanced_data)
    IN  [k \in {"basic_metrics"} \cup {AnalysisKeys[n] : n \in 1..Len(items)} |->
            IF k = "basic_metrics" THEN basic
            ELSE LET n == CHOOSE n \in 1..Len(items) : AnalysisKeys[n] = k
                 IN  [question |-> items[n].question, calculation |-> calc_text]]

\* calc_text: what _ai_calculation returned for each plan entry
perform_calculations(c, calc_text) ==
    LET items == Take(c.analysis_plan, MaxAnalyses)
        basic == calculate_basic_metrics(Get(c.raw_data, "fx_rates", EmptyDict),
                                         Get(c.raw_data, "macro_data", EmptyDict),
                                         c.enhanced_data)
    IN  [k \in {"basic_metrics"} \cup {AnalysisKeys[n] : n \in 1..Len(items)} |->
            IF k = "basic_metrics" THEN basic
            ELSE LET n == CHOOSE n \in 1..Len(items) : AnalysisKeys[n] = k
                 IN  [question |-> items[n].question, calculation |-> calc_text]]

CalculationTexts == {FallbackText}

(***************************************************************************)
(* Stage 7: ValidationStage                                                *)
(* A response line is the set of section markers in its lower-cased text,  *)
(* the digit runs of the line in order, whether its stripped text is       *)
(* non-empty and starts with '-', and the text after the dash.             *)
(***************************************************************************)
ValLine(marks, nums, blank, dash, text) ==
    [marks |-> marks, nums |-> nums, blank |-> blank, dash |-> dash, text |-> text]

RECURSIVE scan_validation(_, _, _)
scan_validation(lines, section, v) ==
    IF lines = <<>> THEN v
    ELSE LET l == Head(lines)
             rest == Tail(lines)
         IN  IF "confidence score" \in l.marks \/ "confidence:" \in l.marks
             THEN scan_validation(rest, section,
                    IF l.nums # <<>> THEN [v EXCEPT !.confidence_score = l.nums[1]] ELSE v)
             ELSE IF "major issue" \in l.marks \/ "serious problem" \in l.marks
             THEN scan_validation(rest, "major_issues", v)
             ELSE IF "minor issue" \in l.marks \/ "small concern" \in l.marks
             THEN scan_validation(rest, "minor_issues", v)
             ELSE IF "strength" \in l.marks \/ "well-supported" \in l.marks
             THEN scan_validation(rest, "strengths", v)
             ELSE IF "caveat" \in l.marks \/ "note" \in l.marks
             THEN scan_validation(rest, "caveats", v)
             ELSE IF ~l.blank /\ section # "" /\ l.dash
             THEN scan_validation(rest, section,
                    CASE section = "major_issues" ->
                            [v EXCEPT !.issues = Append(@, [sev |-> "MAJOR", text |-> l.text]),
                                      !.overall_valid = FALSE]
                      [] section = "minor_issues" ->
                            [v EXCEPT !.issues = Append(@, [sev |-> "MINOR", text |-> l.text])]
                      [] section = "strengths" ->
                            [v EXCEPT !.strengths = Append(@, l.text)]
                      [] section = "caveats" ->
                            [v EXCEPT !.caveats = Append(@, l.text)])
             ELSE scan_validation(rest, section, v)

has_major(issues) == \E n \in 1..Len(issues) : issues[n].sev = "MAJOR"

\* mutant: the closing validity check is missing
parse_validation_no_final_check(response) ==
    LET v0 == [ overall_valid |-> TRUE, confidence_score |-> DefaultConfidence,
                issues |-> <<>>, strengths |-> <<>>, caveats |-> <<>> ]
        v2 == scan_validation(response, "", v0)
    IN  IF v2.issues = <<>> /\ v2.strengths = <<>>
        THEN [v2 EXCEPT !.strengths = Append(@, "Analysis appears logically consistent"),
                        !.caveats = Append(@, "Limited data available for comprehensive validation")]
        ELSE v2

\* mutant: the score starts at 0
parse_validation_default_zero(response) ==
    LET v0 == [ overall_valid |-> TRUE, confidence_score |-> 0,
                issues |-> <<>>, strengths |-> <<>>, caveats |-> <<>> ]
        v1 == scan_validation(response, "", v0)
        v2 == IF v1.confidence_score < ValidityThreshold \/ has_major(v1.issues)
              THEN [v1 EXCEPT !.overall_valid = FALSE] ELSE v1
    IN  IF v2.issues = <<>> /\ v2.strengths = <<>>
        THEN [v2 EXCEPT !.strengths = Append(@, "Analysis appears logically consistent"),
                        !.caveats = Append(@, "Limited data available for comprehensive validation")]
        ELSE v2

parse_validation(response) ==
    LET v0 == [ overall_valid |-> TRUE, confidence_score |-> DefaultConfidence,
                issues |-> <<>>, strengths |-> <<>>, caveats |-> <<>> ]
        v1 == scan_validation(response, "", v0)
        v2 == IF v1.confidence_score < ValidityThreshold \/ has_major(v1.issues)
              THEN [v1 EXCEPT !.overall_valid = FALSE] ELSE v1
    IN  IF v2.issues = <<>> /\ v2.strengths = <<>>
        THEN [v2 EXCEPT !.strengths = Append(@, "Analysis appears logically consistent"),
                        !.caveats = Append(@, "Limited data available for comprehensive validation")]
        ELSE v2

FallbackValidation ==
    << ValLine({}, <<>>, FALSE, FALSE, "Market conditions remain in focus"),
       ValLine({}, <<>>, FALSE, FALSE, "divergence"),
       ValLine({}, <<>>, FALSE, FALSE, "with attention to inflation trends") >>

ValidationResponses ==
    { FallbackValidation,
      << ValLine({"confidence score"}, <<20>>, FALSE, TRUE, "Confidence Score: 20"),
         ValLine({"major issue"}, <<>>, FALSE, FALSE, "Major Issues:"),
         ValLine({}, <<>>, FALSE, TRUE, "unsupported conclusion") >> }


(***************************************************************************)
(* Stage 8: ReportGenerationStage                                          *)
(* A title is its sequence of characters; " " stands for any whitespace    *)
(* and "x" for any other character.                                        *)
(***************************************************************************)
\* str.strip(chars): drop the leading and the trailing run of `chars`
\* (the argument is bound once, as a value, by the set constructor)
lstrip(str, chars) ==
    CHOOSE r \in { LET keep == {k \in 1..Len(s) : s[k] \notin chars}
                   IN  IF keep = {} THEN <<>>
                       ELSE SubSeq(s, CHOOSE k \in keep : \A j \in keep : k <= j, Len(s))
                   : s \in {str} } : TRUE

rstrip(str, chars) ==
    CHOOSE r \in { LET keep == {k \in 1..Len(s) : s[k] \notin chars}
                   IN  IF keep = {} THEN <<>>
                       ELSE SubSeq(s, 1, CHOOSE k \in keep : \A j \in keep : k >= j)
                   : s \in {str} } : TRUE

strip(str, chars) == rstrip(lstrip(str, chars), chars)

RECURSIVE Digits(_)
Digits(n) ==
    LET d == <<"0", "1", "2", "3", "4", "5", "6", "7", "8", "9">>
    IN  IF n < 10 THEN <<d[n + 1]>> ELSE Digits(n \div 10) \o <<d[(n % 10) + 1]>>

\* the rate as the f-string prints it: integer part, '.', the decimals
\* without a trailing zero (147.25, 147.5, 147.0)
RateText(rate) ==
    Digits(rate \div 100) \o <<".">> \o Digits((rate % 100) \div 10) \o
    (IF rate % 10 = 0 THEN <<>> ELSE Digits(rate % 10))

\* "Japan FX Analysis: USD/JPY at "
TitlePrefix ==
    << "J", "a", "p", "a", "n", " ", "F", "X", " ", "A", "n", "a", "l", "y", "s", "i", "s", ":",
       " ", "U", "S", "D", "/", "J", "P", "Y", " ", "a", "t", " " >>

\* mutant: the trimmed reply is the title, whatever its length
generate_title_no_fallback(c, response) ==
    strip(strip(strip(response, {" "}), {"\""}), {"'"})

generate_title(c, response) ==
    CHOOSE r \in
        { IF title = <<>> \/ Len(title) < MinTitleLen
          THEN TitlePrefix \o
               RateText(Get(Get(c.raw_data, "fx_rates", EmptyDict), "USD/JPY", 14725))
          ELSE title
          : title \in {strip(strip(strip(response, {" "}), {"\""}), {"'"})} } : TRUE

SectionKeys ==
    <<"executive_summary", "market_analysis", "key_findings", "risk_assessment", "outlook">>

SectionHeaders ==
    <<"## Executive Summary", "## Market Analysis", "## Key Findings", "## Risk Assessment",
      "## Outlook">>

\* each of the five _generate_* calls returns the completion text
generate_sections(text) == [k \in {SectionKeys[n] : n \in 1..Len(SectionKeys)} |-> text]

RECURSIVE section_parts(_, _)
section_parts(sections, n) ==
    IF n > Len(SectionKeys) THEN <<>>
    ELSE <<SectionHeaders[n], sections[SectionKeys[n]], "">> \o section_parts(sections, n + 1)

\* report_parts, which "\n".join turns into the report
compile_report(sections, appendix) ==
    <<"# YenSense AI Weekly Strategist Report", "**Date:**", "">> \o
    section_parts(sections, 1) \o
    <<"## Appendix: Methodology & Data", appendix, "", "---",
      "*Disclaimer: This report is for informational purposes only and does not constitute financial advice.*">>

ReportTexts == {FallbackText}

\* what _generate_appendix returns
AppendixTexts == {FallbackText}

\* _fallback_analysis as a title: longer than the minimum, no quotes
FallbackTitleText == <<"x", "x", "x", "x", "x", "x", " ", "x", "x", "x", "x", "x">>

TitleResponses == {FallbackTitleText}

(***************************************************************************)
(* The stages as the orchestrator sees them                                *)
(***************************************************************************)
\* what the collaborators hand to stage n during one execute
StageInputs(n) ==
    CASE n = 1 -> FetchResults
      [] n = 2 -> SummaryTexts
      [] n = 3 -> EvidenceResponses
      [] n = 4 -> GapResponses
      [] n = 5 -> ReasoningResponses
      [] n = 6 -> CalculationTexts
      [] n = 7 -> ValidationResponses
      [] n = 8 -> [text : ReportTexts, appendix : AppendixTexts, title : TitleResponses]

\* the reply of a test double: the data fetcher's full mapping, the fixed
\* sentence of _fallback_analysis for every completion call
Canned(n) ==
    CASE n = 1 -> FullData
      [] n = 2 -> FallbackText
      [] n = 3 -> FallbackEvidence
      [] n = 4 -> FallbackGaps
      [] n = 5 -> FallbackReasoning
      [] n = 6 -> FallbackText
      [] n = 7 -> FallbackValidation
      [] n = 8 -> [text |-> FallbackText, appendix |-> FallbackText, title |-> FallbackTitleText]

Inputs(n) == IF canned THEN {Canned(n)} ELSE StageInputs(n)

\* mutant: stage 7 also resets the questions
stage_result_clobber(n, c, inp) ==
    CASE n = 1 -> [raw_data |-> collect_raw_data(inp)]
      [] n = 2 -> [summary |-> inp]
      [] n = 3 -> [enhanced_data |-> gather_evidence(identify_evidence_needed(inp))]
      [] n = 4 -> [questions |-> identify_gaps(inp)]
      [] n = 5 -> [analysis_plan |-> parse_analysis_plan(inp, c.questions)]
      [] n = 6 -> [calculations |-> perform_calculations(c, inp)]
      [] n = 7 -> [validation_results |-> parse_validation(inp), questions |-> <<>>]
      [] n = 8 -> LET sections == generate_sections(inp.text)
                  IN  [ report_sections |-> sections,
                        final_report    |-> compile_report(sections, inp.appendix),
                        title           |-> generate_title(c, inp.title) ]

\* mutant: stage 8 does not store the title
stage_result_no_title(n, c, inp) ==
    CASE n = 1 -> [raw_data |-> collect_raw_data(inp)]
      [] n = 2 -> [summary |-> inp]
      [] n = 3 -> [enhanced_data |-> gather_evidence(identify_evidence_needed(inp))]
      [] n = 4 -> [questions |-> identify_gaps(inp)]
      [] n = 5 -> [analysis_plan |-> parse_analysis_plan(inp, c.questions)]
      [] n = 6 -> [calculations |-> perform_calculations(c, inp)]
      [] n = 7 -> [validation_results |-> parse_validation(inp)]
      [] n = 8 -> LET sections == generate_sections(inp.text)
                  IN  [ report_sections |-> sections,
                        final_report    |-> compile_report(sections, inp.appendix) ]

\* the values a stage computes in locals before it stores them
stage_result(n, c, inp) ==
    CASE n = 1 -> [raw_data |-> collect_raw_data(inp)]
      [] n = 2 -> [summary |-> inp]
      [] n = 3 -> [enhanced_data |-> gather_evidence(identify_evidence_needed(inp))]
      [] n = 4 -> [questions |-> identify_gaps(inp)]
      [] n = 5 -> [analysis_plan |-> parse_analysis_plan(inp, c.questions)]
      [] n = 6 -> [calculations |-> perform_calculations(c, inp)]
      [] n = 7 -> [validation_results |-> parse_validation(inp)]
      [] n = 8 -> LET sections == generate_sections(inp.text)
                  IN  [ report_sections |-> sections,
                        final_report    |-> compile_report(sections, inp.appendix),
                        title           |-> generate_title(c, inp.title) ]

\* mutant: stage 8 never stores its results
Body_no_report_store(n) ==
    CASE n \in {1, 2, 3} -> <<"call", "call", "assign", "output">>
      [] n \in {4, 5, 6, 7} -> <<"call", "assign", "output">>
      [] n = 8 -> <<"call", "call", "call", "call", "output">>

\* mutant: stage 8 stores its results as soon as the sections exist
Body_store_early(n) ==
    CASE n \in {1, 2, 3} -> <<"call", "call", "assign", "output">>
      [] n \in {4, 5, 6, 7} -> <<"call", "assign", "output">>
      [] n = 8 -> <<"call", "call", "assign", "call", "call", "output">>

\* the statements inside the try block of execute, in source order: calls
\* into collaborators and parsers, the store into the context, the stage output
Body(n) ==
    CASE n \in {1, 2, 3} -> <<"call", "call", "assign", "output">>
      [] n \in {4, 5, 6, 7} -> <<"call", "assign", "output">>
      [] n = 8 -> <<"call", "call", "call", "call", "assign", "output">>

\* (context and result are bound once, as values, by the set constructors)
exec_stmt(c0, n, inp, stmt) ==
    CHOOSE out \in
        { CASE stmt = "call"   -> c
            [] stmt = "assign" ->
                 CHOOSE a \in { [f \in DOMAIN c |-> IF f \in DOMAIN r THEN r[f] ELSE c[f]]
                                : r \in {stage_result(n, c, inp)} } : TRUE
            [] stmt = "output" -> add_stage_output(c, OutputNames[n])
          : c \in {c0} } : TRUE

RECURSIVE exec_body(_, _, _, _)
exec_body(c, n, inp, k) ==
    IF k = 0 THEN c
    ELSE exec_stmt(exec_body(c, n, inp, k - 1), n, inp, Body(n)[k])

\* the statements at which a collaborator or parser may raise
FaultPoints(n) == {p \in 1..Len(Body(n)) : Body(n)[p] = "call"}

\* an instrumented stage records `stubErrs` diagnostics on entry
RECURSIVE instrument(_, _, _)
instrument(c, n, k) ==
    IF k = 0 THEN c ELSE add_error(instrument(c, n, k - 1), [stage |-> n, by |-> "stub"])


(***************************************************************************)
(* AnalysisPipeline                                                        *)
(***************************************************************************)
\* mutant: the empty raw_data check is missing
should_abort_no_data_check(c, stage_name) ==
    IF Len(c.errors) > ErrorCeiling THEN TRUE
    ELSE FALSE

\* mutant: the error ceiling check is missing
should_abort_no_ceiling(c, stage_name) ==
    IF stage_name = "DataCollectionStage" /\ IsEmpty(c.raw_data) THEN TRUE
    ELSE FALSE

\* mutant: any recorded error aborts
should_abort_any_error(c, stage_name) ==
    IF stage_name = "DataCollectionStage" /\ IsEmpty(c.raw_data) THEN TRUE
    ELSE IF Len(c.errors) > 0 THEN TRUE
    ELSE FALSE

\* mutant: the low-confidence branch returns True instead of logging
should_abort_low_confidence(c, stage_name) ==
    IF stage_name = "DataCollectionStage" /\ IsEmpty(c.raw_data) THEN TRUE
    ELSE IF /\ stage_name = "ValidationStage"
            /\ ~IsEmpty(c.validation_results)
            /\ Get(c.validation_results, "confidence_score", 100) < LowConfidence THEN TRUE
    ELSE IF Len(c.errors) > ErrorCeiling THEN TRUE
    ELSE FALSE

should_abort(c, stage_name) ==
    IF stage_name = "DataCollectionStage" /\ IsEmpty(c.raw_data) THEN TRUE
    ELSE IF Len(c.errors) > ErrorCeiling THEN TRUE
    ELSE FALSE

\* the warning branch of _should_abort: logs, decides nothing
low_confidence_warning(c, stage_name) ==
    /\ stage_name = "ValidationStage"
    /\ ~IsEmpty(c.validation_results)
    /\ Get(c.validation_results, "confidence_score", 100) < LowConfidence

\* mutant: the critical range is one stage too wide
abort_on_exception_wide(n) == n <= CriticalStages + 1

\* `if i <= 2: break` in the except branch of run
abort_on_exception(n) == n <= CriticalStages

\* mutant: the loop skips every other stage
next_stage_skip(n) == n + 2

\* enumerate(self.stages, 1): the stage after stage n
next_stage(n) == n + 1

\* mutant: the loop is left after every stage
after_stage_always_break(abort) == "AfterLoop"

\* mutant: the `break` is missing
after_stage_no_break(abort) == "Loop"

\* where run goes after the body of one loop iteration
after_stage(abort) == IF abort THEN "AfterLoop" ELSE "Loop"

Init ==
    /\ pc = "NotStarted"
    /\ i = 0
    /\ ctx = PipelineContext
    /\ aborted = FALSE
    /\ hist = <<>>
    /\ fetched = [status |-> "not called", data |-> EmptyDict]
    /\ stubErrs = 0
    /\ canned = FALSE
    /\ persisted = "not attempted"
    /\ stages_to_run = <<>>

\* the same pipeline with its stages replaced by instrumented ones
InitStub ==
    /\ pc = "NotStarted"
    /\ i = 0
    /\ ctx = PipelineContext
    /\ aborted = FALSE
    /\ hist = <<>>
    /\ fetched = [status |-> "not called", data |-> EmptyDict]
    /\ stubErrs \in 1..MaxStubErrs
    /\ canned = FALSE
    /\ persisted = "not attempted"
    /\ stages_to_run = <<>>

\* the shipped stages over test doubles
InitCanned ==
    /\ pc = "NotStarted"
    /\ i = 0
    /\ ctx = PipelineContext
    /\ aborted = FALSE
    /\ hist = <<>>
    /\ fetched = [status |-> "not called", data |-> EmptyDict]
    /\ stubErrs = 0
    /\ canned = TRUE
    /\ persisted = "not attempted"
    /\ stages_to_run = <<>>

\* run, lines 56-62: a fresh context
StartRun ==
    /\ pc = "NotStarted"
    /\ pc' = "Loop"
    /\ ctx' = PipelineContext
    /\ i' = 0
    /\ UNCHANGED <<aborted, hist, fetched, stubErrs, canned, persisted, stages_to_run>>

\* the loop takes the next stage and calls its execute
EnterStage ==
    /\ pc = "Loop"
    /\ i < NumStages
    /\ i' = next_stage(i)
    /\ pc' = "InStage"
    /\ hist' = Append(hist, [stage |-> i', result |-> "running"])
    /\ UNCHANGED <<ctx, aborted, fetched, stubErrs, canned, persisted, stages_to_run>>

SetResult(r) == hist' = [hist EXCEPT ![Len(hist)].result = r]

\* execute returned to run: the try branch goes on to _should_abort
AfterReturn(c) ==
    LET abort == should_abort(c, StageNames[i])
    IN  /\ ctx' = c
        /\ aborted' = abort
        /\ pc' = after_stage(abort)

\* execute runs its whole body and returns
StageReturns ==
    /\ pc = "InStage"
    /\ \E inp \in Inputs(i) :
          /\ AfterReturn(exec_body(instrument(ctx, i, stubErrs), i, inp, Len(Body(i))))
          /\ fetched' = IF i = 1 THEN [status |-> "returned", data |-> inp] ELSE fetched
    /\ SetResult("returned")
    /\ UNCHANGED <<i, stubErrs, canned, persisted, stages_to_run>>

\* a statement of the body raises; execute catches it, calls handle_error and returns
StageCatches ==
    /\ pc = "InStage"
    /\ \E inp \in Inputs(i), p \in FaultPoints(i) :
          /\ AfterReturn(handle_error(exec_body(instrument(ctx, i, stubErrs), i, inp, p - 1), i))
          /\ fetched' = IF i = 1
                        THEN IF p = 1 THEN [status |-> "raised", data |-> EmptyDict]
                                      ELSE [status |-> "malformed", data |-> EmptyDict]
                        ELSE fetched
    /\ SetResult("caught")
    /\ UNCHANGED <<i, stubErrs, canned, persisted, stages_to_run>>

\* an exception leaves execute, raised before the try block ("start") or
\* after it ("end"); the except branch of run records it
StageRaises ==
    /\ pc = "InStage"
    /\ \E inp \in Inputs(i), where \in {"start", "end"} :
          LET c == IF where = "start" THEN instrument(ctx, i, stubErrs)
                   ELSE exec_body(instrument(ctx, i, stubErrs), i, inp, Len(Body(i)))
          IN  /\ ctx' = add_error(c, [stage |-> i, by |-> "pipeline"])
              /\ fetched' = IF i = 1 /\ where = "end"
                            THEN [status |-> "returned", data |-> inp] ELSE fetched
    /\ aborted' = abort_on_exception(i)
    /\ pc' = after_stage(abort_on_exception(i))
    /\ SetResult("escaped")
    /\ UNCHANGED <<i, stubErrs, canned, persisted, stages_to_run>>

\* the for loop is exhausted
LoopEnds ==
    /\ pc = "Loop"
    /\ i >= NumStages
    /\ pc' = "AfterLoop"
    /\ UNCHANGED <<i, ctx, aborted, hist, fetched, stubErrs, canned, persisted, stages_to_run>>

\* mutant: a failed write leaves run through an exception
Finish_save_raises ==
    /\ pc = "AfterLoop"
    /\ \E save_context \in BOOLEAN :
          IF save_context
          THEN \/ persisted' = "written" /\ pc' = "Done"
               \/ persisted' = "failed" /\ pc' = "Raised"
          ELSE persisted' = "not requested" /\ pc' = "Done"
    /\ UNCHANGED <<i, ctx, aborted, hist, fetched, stubErrs, canned, stages_to_run>>

\* run, lines 90-102: the optional _save_context, whose failure is only logged,
\* and the return of the context
Finish ==
    /\ pc = "AfterLoop"
    /\ pc' = "Done"
    /\ \E save_context \in BOOLEAN :
          IF save_context
          THEN persisted' \in {"written", "failed"}
          ELSE persisted' = "not requested"
    /\ UNCHANGED <<i, ctx, aborted, hist, fetched, stubErrs, canned, stages_to_run>>

Next ==
    \/ StartRun
    \/ EnterStage
    \/ StageReturns
    \/ StageCatches
    \/ StageRaises
    \/ LoopEnds
    \/ Finish

Spec == Init /\ [][Next]_vars

SpecStub == InitStub /\ [][Next]_vars

\* every collaborator call returns: a started run keeps taking steps
FairSpec == InitCanned /\ [][Next]_vars /\ WF_vars(Next)

(***************************************************************************)
(* One stage on its own: a context prepared by hand, one collaborator      *)
(* reply, one execute call                                                 *)
(***************************************************************************)
\* question lists a context can hold when stage 5 starts: "q1", "q2", ...
QuestionTexts == <<"q1", "q2", "q3", "q4", "q5", "q6", "q7">>

QuestionLists == {SubSeq(QuestionTexts, 1, n) : n \in 0..MaxQuestionsIn}

\* blocks that may follow a "Question" marker
PlanSections ==
    { << PlanLine({}, "1: restated") >>,
      << PlanLine({}, "1: restated"), PlanLine({"analysis:"}, "compare spreads"),
         PlanLine({"data needed:", "data:"}, "yields"), PlanLine({"insight:"}, "carry") >>,
      << PlanLine({"analysis:"}, ""), PlanLine({"tells us:"}, "trend") >> }

RECURSIVE SeqsUpTo(_, _)
SeqsUpTo(S, n) ==
    IF n = 0 THEN {<<>>}
    ELSE LET shorter == SeqsUpTo(S, n - 1)
         IN  shorter \cup {Append(s, x) : s \in {t \in shorter : Len(t) = n - 1}, x \in S}

ReasoningTexts == SeqsUpTo(PlanSections, MaxSections)

\* `'?' in line` for the texts of the model
contains_qmark(text) ==
    text \in { "Why did USD/JPY strengthen despite weak US data?",
               FallbackQuestions[1], FallbackQuestions[2], FallbackQuestions[3] }

\* the lines a completion text is made of: a question, a heading, a blank line
GapLines ==
    { GapLine(t, contains_qmark(t)) :
        t \in {"Why did USD/JPY strengthen despite weak US data?", "Key questions:", ""} }

GapTexts == SeqsUpTo(GapLines, MaxGapLines)

\* the lines a critique is made of: confidence lines (with the digit runs
\* of "Confidence Score: 20", "Confidence: 150", "Confidence Score (0-100): 85",
\* one without a number, one numbered "1."), section headers, a bullet, plain
\* text, a blank
ValidationLines ==
    { ValLine({"confidence score"}, <<20>>, FALSE, FALSE, "Confidence Score: 20"),
      ValLine({"confidence:"}, <<150>>, FALSE, FALSE, "Confidence: 150"),
      ValLine({"confidence score"}, <<0, 100, 85>>, FALSE, TRUE, "Confidence Score (0-100): 85"),
      ValLine({"confidence score"}, <<>>, FALSE, FALSE, "Confidence Score: high"),
      ValLine({"confidence score"}, <<1, 85>>, FALSE, FALSE, "1. Confidence Score: 85"),
      ValLine({"major issue"}, <<>>, FALSE, FALSE, "Major Issues:"),
      ValLine({"minor issue"}, <<>>, FALSE, FALSE, "Minor Issues:"),
      ValLine({"strength"}, <<>>, FALSE, FALSE, "Strengths:"),
      ValLine({}, <<>>, FALSE, TRUE, "unsupported conclusion"),
      ValLine({}, <<>>, FALSE, FALSE, "The analysis is thin."),
      ValLine({}, <<>>, TRUE, FALSE, "") }

\* how many digit runs of a line stand before its confidence marker
runs_before_marker(l) == IF l.text = "1. Confidence Score: 85" THEN 1 ELSE 0

ValidationTexts == SeqsUpTo(ValidationLines, MaxValLines)

\* replies to the title prompt: a core of 0, 9, 10 or 12 characters between
\* runs of blanks and quotes
TitleCores ==
    { <<>>,
      <<"x", "x", "x", "x", "x", "x", "x", "x", "x">>,
      <<"x", "x", "x", "x", "x", "x", "x", "x", "x", "x">>,
      <<"x", "x", "x", "x", "x", "'", " ", "x", "x", "x", "x", "x">> }

TitleTexts ==
    { lead \o core \o trail :
        lead \in SeqsUpTo({" ", "\"", "'"}, MaxTitlePad),
        core \in TitleCores,
        trail \in SeqsUpTo({" ", "\"", "'"}, MaxTitlePad) }

UnitReports == [text : {"section text"}, appendix : {"appendix text"}, title : TitleTexts]

\* sentiment scores are read as "<score>/100"
SentimentScores == 0..100

\* contexts for stage 6: the rates with and without a 'sentiment_score' key
\* of their own, next to the top-level sentiment_score of raw_data
CalculationContexts ==
    { [PipelineContext EXCEPT !.raw_data =
          collect_raw_data([FullData EXCEPT !.fx_rates = fx, !.sentiment_score = top])] :
        fx \in {EmptyDict, FullData.fx_rates} \cup
               {FullData.fx_rates @@ ("sentiment_score" :> s) : s \in SentimentScores},
        top \in {DefaultSentiment, 90} }
    \cup
    { [PipelineContext EXCEPT !.raw_data =
          collect_raw_data([FullData EXCEPT !.sentiment_score = top])] :
        top \in SentimentScores }

\* the lines of a reply to the evidence prompt: topics whose keywords meet
\* two rules at once, one rule, or none; a '#' heading; a blank line
EvidenceLines ==
    { EvLine(FALSE, FALSE, {"historical", "usd/jpy", "yields"}),
      EvLine(FALSE, FALSE, {"oil", "vix"}),
      EvLine(FALSE, FALSE, {"boj", "statement"}),
      EvLine(FALSE, FALSE, {"boj"}),
      EvLine(FALSE, TRUE, {"treasury"}),
      EvLine(TRUE, FALSE, {}) }

EvidenceTexts == SeqsUpTo(EvidenceLines, MaxEvidenceLines)

UnitStages == {3, 4, 5, 6, 7, 8}

UnitInputs(n) ==
    CASE n = 3 -> EvidenceTexts
      [] n = 4 -> GapTexts
      [] n = 5 -> ReasoningTexts
      [] n = 6 -> CalculationTexts
      [] n = 7 -> ValidationTexts
      [] n = 8 -> UnitReports

UnitContexts(n) ==
    CASE n = 5 -> {[PipelineContext EXCEPT !.questions = qs] : qs \in QuestionLists}
      [] n = 6 -> CalculationContexts
      [] n = 8 -> { PipelineContext,
                    [PipelineContext EXCEPT !.raw_data = collect_raw_data(FullData)] }
      [] OTHER -> {PipelineContext}

InitUnit ==
    /\ pc = "Unit"
    /\ i \in UnitStages
    /\ ctx \in UnitContexts(i)
    /\ aborted = FALSE
    /\ hist = <<>>
    /\ fetched \in [status : {"reply"}, data : UnitInputs(i)]
    /\ stubErrs = 0
    /\ canned = FALSE
    /\ persisted = "not attempted"
    /\ stages_to_run = <<>>

\* stage.execute(context) with the collaborator replying fetched.data
UnitExecute ==
    /\ pc = "Unit"
    /\ pc' = "UnitDone"
    /\ ctx' = exec_body(ctx, i, fetched.data, Len(Body(i)))
    /\ UNCHANGED <<i, aborted, hist, fetched, stubErrs, canned, persisted, stages_to_run>>

NextUnit == UnitExecute

SpecUnit == InitUnit /\ [][NextUnit]_vars

(***************************************************************************)
(* AnalysisPipeline.run_partial                                            *)
(***************************************************************************)
\* names a caller may pass: two stage class names and one that is no stage
PartialNames == {"DataCollectionStage", "GapIdentificationStage", "NoSuchStage"}

\* short lists in any order and with repetitions, and the list of all stages
Selections ==
    SeqsUpTo(PartialNames, MaxSelection)
        \cup {StageNames, Reverse(StageNames) \o <<"DataCollectionStage">>}

\* `stage.__class__.__name__ in stages_to_run`
is_selected(n) == \E k \in 1..Len(stages_to_run) : stages_to_run[k] = StageNames[n]

\* the stages the list names, and the stages execute was called on
PartialWanted ==
    {n \in 1..NumStages : \E k \in 1..Len(stages_to_run) : stages_to_run[k] = StageNames[n]}

PartialExecuted == {hist[k].stage : k \in 1..Len(hist)}

\* mutant: the abort policy of run is applied after each stage
partial_after_stage_with_policy(c, stage_name) ==
    IF should_abort(c, stage_name) THEN "PartialDone" ELSE "PartialLoop"

\* run_partial goes on with the loop after every execute call that returned
partial_after_stage(c, stage_name) == "PartialLoop"

InitPartial ==
    /\ pc = "PartialNotStarted"
    /\ i = 0
    /\ ctx = PipelineContext
    /\ aborted = FALSE
    /\ hist = <<>>
    /\ fetched = [status |-> "not called", data |-> EmptyDict]
    /\ stubErrs \in 0..MaxStubErrs
    /\ canned = TRUE
    /\ persisted = "not attempted"
    /\ stages_to_run \in Selections

\* line 114: a fresh context
PartialStart ==
    /\ pc = "PartialNotStarted"
    /\ pc' = "PartialLoop"
    /\ ctx' = PipelineContext
    /\ i' = 0
    /\ UNCHANGED <<aborted, hist, fetched, stubErrs, canned, persisted, stages_to_run>>

\* the loop takes the next stage; its class name is not in the list
PartialSkip ==
    /\ pc = "PartialLoop"
    /\ i < NumStages
    /\ ~is_selected(next_stage(i))
    /\ i' = next_stage(i)
    /\ UNCHANGED <<pc, ctx, aborted, hist, fetched, stubErrs, canned, persisted, stages_to_run>>

\* the loop takes the next stage; its class name is in the list: execute is called
PartialEnter ==
    /\ pc = "PartialLoop"
    /\ i < NumStages
    /\ is_selected(next_stage(i))
    /\ i' = next_stage(i)
    /\ pc' = "PartialInStage"
    /\ hist' = Append(hist, [stage |-> i', result |-> "running"])
    /\ UNCHANGED <<ctx, aborted, fetched, stubErrs, canned, persisted, stages_to_run>>

\* execute runs its whole body and returns
PartialReturns ==
    /\ pc = "PartialInStage"
    /\ \E inp \in Inputs(i) :
          /\ ctx' = exec_body(instrument(ctx, i, stubErrs), i, inp, Len(Body(i)))
          /\ fetched' = IF i = 1 THEN [status |-> "returned", data |-> inp] ELSE fetched
    /\ pc' = partial_after_stage(ctx', StageNames[i])
    /\ SetResult("returned")
    /\ UNCHANGED <<i, aborted, stubErrs, canned, persisted, stages_to_run>>

\* a statement of the body raises; execute catches it, calls handle_error and returns
PartialCatches ==
    /\ pc = "PartialInStage"
    /\ \E inp \in Inputs(i), p \in FaultPoints(i) :
          /\ ctx' = handle_error(exec_body(instrument(ctx, i, stubErrs), i, inp, p - 1), i)
          /\ fetched' = IF i = 1
                        THEN IF p = 1 THEN [status |-> "raised", data |-> EmptyDict]
                                      ELSE [status |-> "malformed", data |-> EmptyDict]
                        ELSE fetched
    /\ pc' = partial_after_stage(ctx', StageNames[i])
    /\ SetResult("caught")
    /\ UNCHANGED <<i, aborted, stubErrs, canned, persisted, stages_to_run>>

\* an exception leaves execute: run_partial has no try, the caller gets it
PartialRaises ==
    /\ pc = "PartialInStage"
    /\ \E inp \in Inputs(i), where \in {"start", "end"} :
          /\ ctx' = IF where = "start" THEN instrument(ctx, i, stubErrs)
                    ELSE exec_body(instrument(ctx, i, stubErrs), i, inp, Len(Body(i)))
          /\ fetched' = IF i = 1 /\ where = "end"
                        THEN [status |-> "returned", data |-> inp] ELSE fetched
    /\ pc' = "PartialRaised"
    /\ SetResult("escaped")
    /\ UNCHANGED <<i, aborted, stubErrs, canned, persisted, stages_to_run>>

\* the for loop is exhausted: line 121 returns the context
PartialEnds ==
    /\ pc = "PartialLoop"
    /\ i >= NumStages
    /\ pc' = "PartialDone"
    /\ UNCHANGED <<i, ctx, aborted, hist, fetched, stubErrs, canned, persisted, stages_to_run>>

NextPartial ==
    \/ PartialStart
    \/ PartialSkip
    \/ PartialEnter
    \/ PartialReturns
    \/ PartialCatches
    \/ PartialRaises
    \/ PartialEnds

SpecPartial == InitPartial /\ [][NextPartial]_vars

TypeOK ==
    /\ pc \in {"NotStarted", "Loop", "InStage", "AfterLoop", "Done"}
    /\ i \in 0..NumStages
    /\ aborted \in BOOLEAN
    /\ Len(hist) <= NumStages


(***************************************************************************)
(* Derived notions used by the properties                                  *)
(***************************************************************************)
Finished(k) == k \in 1..Len(hist) /\ hist[k].result # "running"

Returned(k) == k \in 1..Len(hist) /\ hist[k].result \in {"returned", "caught"}

Escaped(k) == k \in 1..Len(hist) /\ hist[k].result = "escaped"

LoopLeft == pc \in {"AfterLoop", "Done"}

\* the step in which the execute call of stage i ends with result r
Ends(r) == pc = "InStage" /\ pc' # "InStage" /\ Last(hist').result = r

\* NotStarted -> Running(k) -> Aborted | Completed
RunState ==
    IF hist = <<>> /\ ~LoopLeft THEN <<"NotStarted", 0>>
    ELSE IF aborted THEN <<"Aborted", 0>>
    ELSE IF LoopLeft THEN <<"Completed", 0>>
    ELSE <<"Running", i>>

(***************************************************************************)
(* C1: stages run in the fixed order 1..8: the k-th execute call is stage  *)
(* k (so no stage runs twice or before a lower-numbered one), a stage      *)
(* starts only after its predecessor returned or raised, and there are at  *)
(* most 8 calls.                                                           *)
(***************************************************************************)
C1_FixedOrder ==
    /\ Len(hist) <= NumStages
    /\ \A k \in 1..Len(hist) : hist[k].stage = k
    /\ \A k \in 1..(Len(hist) - 1) : hist[k].result # "running"
    /\ (pc = "InStage") <=> (hist # <<>> /\ Last(hist).result = "running")
    /\ (pc = "InStage") => i = Len(hist)

C1_Witness == pc = "Done" /\ Len(hist) = NumStages /\ \A k \in 1..NumStages : Finished(k)

(***************************************************************************)
(* C2: if raw_data is empty once stage 1 has returned, the run is aborted: *)
(* no stage 2..8 is executed and final_report stays empty.                 *)
(***************************************************************************)
C2_EmptyRawDataAborts ==
    (Returned(1) /\ IsEmpty(ctx.raw_data)) =>
        /\ Len(hist) = 1
        /\ aborted
        /\ LoopLeft
        /\ ctx.final_report = <<>>

C2_Witness == pc = "Done" /\ Returned(1) /\ IsEmpty(ctx.raw_data) /\ Len(hist) = 1

(***************************************************************************)
(* C3: when an exception escapes stage i, exactly one entry is appended to *)
(* errors; for i <= 2 the loop is left and no later stage is executed; for *)
(* i >= 3 the run goes on, the next execute call is stage i+1 and it gets  *)
(* the context as it was left.                                             *)
(***************************************************************************)
C3_EscapedException ==
    [][ /\ Ends("escaped") =>
            /\ Len(ctx'.errors) = Len(ctx.errors) + 1
            /\ SubSeq(ctx'.errors, 1, Len(ctx.errors)) = ctx.errors
            /\ (i <= 2 => aborted' /\ pc' = "AfterLoop")
            /\ (i >= 3 => ~aborted' /\ pc' = "Loop")
        /\ (pc = "Loop" /\ i < NumStages) => (pc' = "InStage" /\ i' = i + 1 /\ ctx' = ctx)
        /\ LoopLeft => (hist' = hist /\ LoopLeft')
      ]_vars

C3_Witness ==
    /\ Len(hist) = 4 /\ Escaped(3) /\ hist[4].result = "running"
    /\ Last(ctx.errors) = [stage |-> 3, by |-> "pipeline"]

C5_ScenarioB ==
    (Finished(1) /\ fetched.status = "returned" /\ IsEmpty(fetched.data)) =>
        /\ aborted
        /\ Len(hist) = 1
        /\ Len(ctx.errors) >= 1

C7_OnlyTwoHalts ==
    LoopLeft =>
        \/ Len(hist) = NumStages
        \/ Len(hist) = 1 /\ Returned(1) /\ IsEmpty(ctx.raw_data)
        \/ Len(hist) <= 2 /\ Escaped(Len(hist))

C7_Witness ==
    /\ pc = "Done" /\ Len(hist) = NumStages /\ ~aborted
    /\ Len(ctx.errors) = 6

(***************************************************************************)
(* C8: a confidence score below 30 does not abort: when Validation returns *)
(* with confidence_score < 30 and at most 10 errors, the run goes on and   *)
(* the next execute call is stage 8.                                       *)
(***************************************************************************)
C8_LowConfidenceContinues ==
    [][ /\ ( /\ Ends("returned") /\ i = 7
             /\ ctx'.validation_results.confidence_score < 30
             /\ Len(ctx'.errors) <= 10 ) => (pc' = "Loop" /\ ~aborted')
        /\ (pc = "Loop" /\ i = 7) => (pc' = "InStage" /\ i' = 8 /\ Last(hist').stage = 8)
      ]_vars

C8_Witness ==
    /\ Len(hist) = NumStages /\ hist[7].result = "returned"
    /\ low_confidence_warning(ctx, "ValidationStage")

(***************************************************************************)
(* C9: when every collaborator call returns, a started run reaches its     *)
(* return; the run state only moves NotStarted -> Running(1) -> ... ->     *)
(* Running(k) -> Aborted | Completed with k increasing by steps, and       *)
(* nothing changes a terminal state.                                       *)
(***************************************************************************)
C9_Forward ==
    LET s == RunState
        t == RunState'
    IN  \/ t = s
        \/ s[1] = "NotStarted" /\ t = <<"Running", 1>>
        \/ s[1] = "Running" /\ t[1] = "Running" /\ t[2] = s[2] + 1
        \/ s[1] = "Running" /\ t[1] \in {"Aborted", "Completed"}

C9_RunTerminates ==
    /\ (pc # "NotStarted") ~> (pc = "Done")
    /\ [][ /\ C9_Forward
           /\ RunState[1] \in {"Aborted", "Completed"} => (hist' = hist /\ ctx' = ctx)
           /\ pc = "Done" => UNCHANGED vars ]_vars

C9_Witness == pc = "Done" /\ RunState[1] = "Aborted" /\ Len(hist) = 2

(***************************************************************************)
(* C10: an exception raised by a statement of the body of execute is       *)
(* caught by the stage: execute returns to the try branch of run, exactly  *)
(* one entry (the stage's) is appended to errors, and the fields the stage *)
(* owns keep the value they had on entry, wherever the exception occurred. *)
(***************************************************************************)
C10_CaughtLeavesFieldsAtEntryValue ==
    [][ Ends("caught") =>
            /\ ctx'.errors = Append(ctx.errors, [stage |-> i, by |-> "stage"])
            /\ \A f \in Owned[i] : ctx'[f] = ctx[f]
            /\ pc' = after_stage(should_abort(ctx', StageNames[i]))
      ]_vars

C10_Witness ==
    /\ Len(hist) = NumStages /\ hist[NumStages].result = "caught"
    /\ ctx.final_report = <<>> /\ ctx.title = <<>> /\ IsEmpty(ctx.report_sections)
    /\ Last(ctx.errors) = [stage |-> NumStages, by |-> "stage"]

(***************************************************************************)
(* C11: errors is append-only within a run: over every step (a stage       *)
(* returning, handle_error, the except branch of run, _save_context) the   *)
(* list before the step is a prefix of the list after it; handle_error and *)
(* the except branch of run append exactly one entry each.                 *)
(***************************************************************************)
C11_ErrorsAppendOnly ==
    [][ /\ Len(ctx.errors) <= Len(ctx'.errors)
        /\ SubSeq(ctx'.errors, 1, Len(ctx.errors)) = ctx.errors
        /\ (Ends("caught") \/ Ends("escaped")) => Len(ctx'.errors) = Len(ctx.errors) + 1
        /\ Ends("returned") => ctx'.errors = ctx.errors
        /\ pc = "AfterLoop" => ctx'.errors = ctx.errors
      ]_vars

C11_Witness ==
    /\ pc = "Done" /\ persisted = "written" /\ Len(ctx.errors) = 3
    /\ ctx.errors[1].by = "stage" /\ ctx.errors[2].by = "pipeline" /\ ctx.errors[3].by = "stage"

C13_ScenarioD ==
    (pc = "UnitDone" /\ i = 5 /\ fetched.data = <<>>) =>
        /\ Len(ctx.analysis_plan) = IF Len(ctx.questions) < 3 THEN Len(ctx.questions) ELSE 3
        /\ \A k \in 1..Len(ctx.analysis_plan) :
              /\ ctx.analysis_plan[k].question = ctx.questions[k]
              /\ ctx.analysis_plan[k].analysis = "Analyze current vs historical levels"
              /\ ctx.analysis_plan[k].data_needed = "Current and historical data points"
              /\ ctx.analysis_plan[k].insight = "Understand if current levels are unusual"

C13_Witness ==
    /\ pc = "UnitDone" /\ i = 5 /\ fetched.data = <<>>
    /\ Len(ctx.questions) = 5 /\ Len(ctx.analysis_plan) = 3
    /\ ctx.analysis_plan[3].question = "q3"

(***************************************************************************)
(* C14: whenever the GapIdentification stage completes without an error,   *)
(* questions has between 3 and 7 elements and each contains a question     *)
(* mark; the three fixed fallback questions are appended exactly when      *)
(* fewer than 3 lines with '?' were parsed.                                *)
(***************************************************************************)
C14_QuestionsBounds ==
    (pc = "UnitDone" /\ i = 4 /\ ctx.errors = <<>>) =>
        LET parsed   == Cardinality({k \in 1..Len(fetched.data) : fetched.data[k].qmark})
            fallback == {FallbackQuestions[k] : k \in 1..Len(FallbackQuestions)}
            used     == {ctx.questions[k] : k \in 1..Len(ctx.questions)}
        IN  /\ 3 <= Len(ctx.questions)
            /\ Len(ctx.questions) <= 7
            /\ \A k \in 1..Len(ctx.questions) : contains_qmark(ctx.questions[k])
            /\ parsed >= 3 => used \cap fallback = {}
            /\ parsed < 3 => /\ Len(ctx.questions) = parsed + 3
                             /\ SubSeq(ctx.questions, parsed + 1, parsed + 3) = FallbackQuestions

C14_Witness ==
    /\ pc = "UnitDone" /\ i = 4 /\ ctx.errors = <<>>
    /\ Len(fetched.data) = 8 /\ \A k \in 1..8 : fetched.data[k].qmark
    /\ Len(ctx.questions) = 7

(***************************************************************************)
(* C15: for every completion text, overall_valid is False if and only if   *)
(* confidence_score < 50 or some entry of issues is tagged MAJOR.          *)
(***************************************************************************)
C15_OverallValidIff ==
    (pc = "UnitDone" /\ i = 7 /\ ctx.errors = <<>>) =>
        LET v == ctx.validation_results
        IN  (v.overall_valid = FALSE) <=>
                \/ v.confidence_score < 50
                \/ \E k \in 1..Len(v.issues) : v.issues[k].sev = "MAJOR"

C15_Witness ==
    /\ pc = "UnitDone" /\ i = 7 /\ ctx.errors = <<>>
    /\ ctx.validation_results.confidence_score = 20
    /\ ctx.validation_results.issues = <<>>
    /\ ctx.validation_results.overall_valid = FALSE

(***************************************************************************)
(* C16 (Scenario C): when no line of the completion text has a confidence  *)
(* marker, confidence_score is 70 and overall_valid is True unless a MAJOR  *)
(* issue was parsed.                                                       *)
(***************************************************************************)
C16_ScenarioC ==
    ( /\ pc = "UnitDone" /\ i = 7 /\ ctx.errors = <<>>
      /\ \A k \in 1..Len(fetched.data) :
            fetched.data[k].marks \cap {"confidence score", "confidence:"} = {} ) =>
        LET v == ctx.validation_results
        IN  /\ v.confidence_score = 70
            /\ v.overall_valid = ~(\E k \in 1..Len(v.issues) : v.issues[k].sev = "MAJOR")

C16_Witness ==
    /\ pc = "UnitDone" /\ i = 7 /\ ctx.errors = <<>>
    /\ Len(fetched.data) = 3
    /\ \A k \in 1..Len(fetched.data) :
          fetched.data[k].marks \cap {"confidence score", "confidence:"} = {}
    /\ ctx.validation_results.confidence_score = 70
    /\ ctx.validation_results.overall_valid = TRUE
    /\ Len(ctx.validation_results.issues) = 1

(***************************************************************************)
(* C17: whenever the Validation stage completes, confidence_score is an    *)
(* integer in 0..100, for every completion text.                           *)
(***************************************************************************)
C17_ConfidenceInRange ==
    (pc = "UnitDone" /\ i = 7 /\ ctx.errors = <<>>) =>
        ctx.validation_results.confidence_score \in 0..100

(***************************************************************************)
(* C18: whenever stage 8 completes without an error, report_sections has   *)
(* exactly the five keys executive_summary, market_analysis, key_findings,  *)
(* risk_assessment, outlook; final_report contains the five section        *)
(* headers in that order, then the appendix, then the disclaimer; and      *)
(* title has at least 10 characters, the fallback title being used when    *)
(* the trimmed reply is shorter.                                           *)
(***************************************************************************)
C18_ReportShape ==
    (pc = "UnitDone" /\ i = 8 /\ ctx.errors = <<>>) =>
        LET r == ctx.final_report
            at(x, from) ==
                IF \E k \in from..Len(r) : r[k] = x
                THEN CHOOSE k \in from..Len(r) : r[k] = x /\ \A j \in from..(k - 1) : r[j] # x
                ELSE Len(r) + 1
            p1 == at("## Executive Summary", 1)
            p2 == at("## Market Analysis", p1 + 1)
            p3 == at("## Key Findings", p2 + 1)
            p4 == at("## Risk Assessment", p3 + 1)
            p5 == at("## Outlook", p4 + 1)
            p6 == at(fetched.data.appendix, p5 + 1)
            p7 == at("*Disclaimer: This report is for informational purposes only and does not constitute financial advice.*", p6 + 1)
            trimmed == strip(strip(strip(fetched.data.title, {" "}), {"\""}), {"'"})
        IN  /\ DOMAIN ctx.report_sections =
                 {"executive_summary", "market_analysis", "key_findings", "risk_assessment", "outlook"}
            /\ p7 <= Len(r)
            /\ Len(ctx.title) >= 10
            /\ Len(trimmed) >= 10 => ctx.title = trimmed
            /\ Len(trimmed) < 10 => SubSeq(ctx.title, 1, Len(TitlePrefix)) = TitlePrefix

C18_Witness ==
    /\ pc = "UnitDone" /\ i = 8 /\ ctx.errors = <<>>
    /\ Len(fetched.data.title) = 13
    /\ Len(strip(strip(strip(fetched.data.title, {" "}), {"\""}), {"'"})) = 9
    /\ SubSeq(ctx.title, 1, Len(TitlePrefix)) = TitlePrefix
    /\ Len(ctx.final_report) > 0

C20_SingleWriter ==
    [][ (pc = "InStage" /\ pc' # "InStage") =>
            LET own == CASE i = 1 -> {"raw_data"}
                         [] i = 2 -> {"summary"}
                         [] i = 3 -> {"enhanced_data"}
                         [] i = 4 -> {"questions"}
                         [] i = 5 -> {"analysis_plan"}
                         [] i = 6 -> {"calculations"}
                         [] i = 7 -> {"validation_results"}
                         [] i = 8 -> {"report_sections", "final_report", "title"}
            IN  /\ \A f \in DOMAIN ctx \ (own \cup {"stage_outputs", "errors"}) :
                      ctx'[f] = ctx[f]
                /\ ctx.stage_outputs \subseteq ctx'.stage_outputs
                /\ ctx'.stage_outputs \ ctx.stage_outputs \subseteq {OutputNames[i]}
                /\ SubSeq(ctx'.errors, 1, Len(ctx.errors)) = ctx.errors
      ]_vars

C20_Witness ==
    /\ Len(hist) = 7 /\ \A k \in 1..7 : hist[k].result = "returned"
    /\ ~IsEmpty(ctx.raw_data) /\ ctx.summary # "" /\ ~IsEmpty(ctx.enhanced_data)
    /\ Len(ctx.questions) = 3 /\ ctx.analysis_plan # <<>> /\ ~IsEmpty(ctx.calculations)
    /\ ~IsEmpty(ctx.validation_results)
    /\ ctx.final_report = <<>>
    /\ ctx.stage_outputs = {OutputNames[k] : k \in 1..7}

(***************************************************************************)
(* C21: persistence is attempted once, at the end of the run and after the *)
(* last stage execution, whether the run was aborted or not; a failed      *)
(* write does not fail the run: run returns the context with the field     *)
(* values it had after the last stage.                                     *)
(***************************************************************************)
C21_PersistenceNeverFailsRun ==
    [][ /\ persisted' # persisted =>
              /\ persisted = "not attempted"
              /\ pc = "AfterLoop" /\ pc' = "Done"
              /\ ctx' = ctx /\ hist' = hist /\ aborted' = aborted
        /\ (pc = "AfterLoop" /\ pc' # pc) =>
              /\ pc' = "Done"
              /\ persisted' \in {"written", "failed", "not requested"}
              /\ ctx' = ctx
        /\ pc = "Done" => UNCHANGED vars
      ]_vars

C21_Witness ==
    /\ pc = "Done" /\ persisted = "failed" /\ aborted
    /\ Len(hist) = 2 /\ Len(ctx.errors) = 1 /\ ~IsEmpty(ctx.raw_data)

(***************************************************************************)
(* C22 (Scenario A): with a data collaborator returning fully populated    *)
(* data, every completion call returning the same fixed non-empty string   *)
(* and no stage raising, the run executes all eight stages and ends        *)
(* Completed (not aborted) with a non-empty final_report and no errors.    *)
(***************************************************************************)
C22_ScenarioA ==
    LET clean == \A k \in 1..Len(hist) : hist[k].result \in {"running", "returned"}
    IN  /\ [](canned /\ clean => ctx.errors = <<>> /\ ~aborted)
        /\ []((canned /\ clean /\ pc = "Done") =>
                /\ Len(hist) = 8
                /\ fetched.data = FullData
                /\ RunState[1] = "Completed"
                /\ ctx.final_report # <<>>
                /\ ctx.errors = <<>>)
        /\ (canned /\ pc = "Loop" /\ hist = <<>>) ~> (pc = "Done" \/ ~clean)

C22_Witness ==
    /\ canned /\ pc = "Done" /\ Len(hist) = 8
    /\ \A k \in 1..8 : hist[k].result = "returned"
    /\ ~aborted /\ ctx.final_report # <<>> /\ ctx.errors = <<>>
    /\ ctx.summary = "Market conditions remain in focus"
    /\ persisted = "written"

(***************************************************************************)
(* C23 as claimed: for every sentiment score s in 0..100 the bucket of the *)
(* Calculation stage is 'Bullish' when s >= 60, 'Bearish' when s <= 40 and *)
(* 'Neutral' otherwise.                                                    *)
(***************************************************************************)
C23_BucketInclusive ==
    (pc = "UnitDone" /\ i = 6 /\ ctx.errors = <<>>) =>
        LET m == ctx.calculations["basic_metrics"]
            s == m["sentiment_score"]
        IN  m["sentiment_interpretation"] =
                IF s >= 60 THEN "Bullish" ELSE IF s <= 40 THEN "Bearish" ELSE "Neutral"

(***************************************************************************)
(* C23 amended: for every sentiment score s in 0..100 the bucket is        *)
(* 'Bullish' when s > 60, 'Bearish' when s < 40 and 'Neutral' otherwise,   *)
(* so s = 60 and s = 40 both give 'Neutral'.                               *)
(***************************************************************************)
C23_BucketStrict ==
    (pc = "UnitDone" /\ i = 6 /\ ctx.errors = <<>>) =>
        LET m == ctx.calculations["basic_metrics"]
            s == m["sentiment_score"]
        IN  /\ s \in 0..100
            /\ m["sentiment_interpretation"] =
                  IF s > 60 THEN "Bullish" ELSE IF s < 40 THEN "Bearish" ELSE "Neutral"

C23_Witness ==
    /\ pc = "UnitDone" /\ i = 6 /\ ctx.errors = <<>>
    /\ ctx.calculations["basic_metrics"]["sentiment_score"] = 60
    /\ ctx.calculations["basic_metrics"]["sentiment_interpretation"] = "Neutral"

C25_EvidenceRules ==
    (pc = "UnitDone" /\ i = 3 /\ ctx.errors = <<>>) =>
        LET text    == fetched.data
            topics  == {k \in 1..Len(text) : ~text[k].blank /\ ~text[k].hash}
            first5  == {k \in topics : Cardinality({j \in topics : j < k}) < 5}
            key(kw) == IF "historical" \in kw /\ "usd/jpy" \in kw THEN {"historical_usdjpy"}
                       ELSE IF "treasury" \in kw \/ "yields" \in kw THEN {"us_yields"}
                       ELSE IF "oil" \in kw \/ "energy" \in kw THEN {"oil_prices"}
                       ELSE IF "vix" \in kw \/ "volatility" \in kw THEN {"vix"}
                       ELSE IF "boj" \in kw /\ ("policy" \in kw \/ "statement" \in kw)
                            THEN {"boj_policy"}
                       ELSE {}
            matched == UNION {key(text[k].kw) : k \in first5}
            keys    == DOMAIN ctx.enhanced_data
        IN  /\ keys # {}
            /\ keys \subseteq {"historical_usdjpy", "us_yields", "oil_prices", "vix",
                               "boj_policy", "market_context"}
            /\ ("market_context" \in keys) <=> (matched = {})
            /\ keys \ {"market_context"} = matched

C25_Witness ==
    /\ pc = "UnitDone" /\ i = 3 /\ ctx.errors = <<>>
    /\ Len(fetched.data) = 6
    /\ \A k \in 1..5 : fetched.data[k] = EvLine(FALSE, FALSE, {"boj"})
    /\ fetched.data[6] = EvLine(FALSE, FALSE, {"historical", "usd/jpy", "yields"})
    /\ DOMAIN ctx.enhanced_data = {"market_context"}

(***************************************************************************)
(* C26: with the eight concrete stages each stage execution appends at     *)
(* most one entry to errors (one by handle_error or one by the except      *)
(* branch of run), so len(errors) <= number of stages executed <= 8 in     *)
(* every state and the 'more than 10 errors' abort branch is never taken.  *)
(***************************************************************************)
C26_ErrorsBoundedByStages ==
    LET executed == Cardinality({k \in 1..Len(hist) : hist[k].result # "running"})
        failed   == Cardinality({k \in 1..Len(hist) : hist[k].result \in {"caught", "escaped"}})
    IN  /\ Len(ctx.errors) = failed
        /\ Len(ctx.errors) <= executed
        /\ executed <= 8
        /\ ~(Len(ctx.errors) > 10)

C26_Witness ==
    /\ pc = "Done" /\ Len(hist) = 8 /\ Len(ctx.errors) = 7
    /\ hist[1].result = "returned" /\ ~aborted

(***************************************************************************)
(* C27: whenever DataCollectionStage.execute returns without recording an  *)
(* error, raw_data has exactly the six keys fx_rates, macro_data,          *)
(* boj_news, reuters_news, nikkei_news, sentiment_score (missing           *)
(* categories being {}, [] or 50), whatever mapping was fetched; hence the *)
(* run aborts on empty raw_data after stage 1 iff stage 1 recorded an      *)
(* error, and every run aborted after stage 1 has at least one error.      *)
(***************************************************************************)
C27_SixKeysOrError ==
    Finished(1) =>
        /\ hist[1].result = "returned" =>
              /\ DOMAIN ctx.raw_data = {"fx_rates", "macro_data", "boj_news", "reuters_news",
                                        "nikkei_news", "sentiment_score"}
              /\ \A k \in DOMAIN ctx.raw_data :
                    ctx.raw_data[k] =
                        IF k \in DOMAIN fetched.data THEN fetched.data[k]
                        ELSE IF k \in {"fx_rates", "macro_data"} THEN EmptyDict
                        ELSE IF k = "sentiment_score" THEN 50
                        ELSE <<>>
        /\ Returned(1) =>
              ((aborted /\ Len(hist) = 1) <=> ctx.errors # <<>> /\ ctx.errors[1].stage = 1)
        /\ Returned(1) => (IsEmpty(ctx.raw_data) <=> hist[1].result = "caught")
        /\ (aborted /\ Len(hist) = 1) => Len(ctx.errors) >= 1

C27_Witness ==
    /\ pc = "Done" /\ Len(hist) = 8 /\ hist[1].result = "returned"
    /\ fetched.data = RatesOnly
    /\ ctx.raw_data.sentiment_score = 50 /\ ctx.raw_data.boj_news = <<>>
    /\ ctx.raw_data.fx_rates = FullData.fx_rates
    /\ ctx.errors = <<>>

(***************************************************************************)
(* C28: for every completion text and every questions list the plan of     *)
(* _parse_analysis_plan has at most len(questions) records, record k       *)
(* carries questions[k], every record has the four keys question,          *)
(* analysis, data_needed, insight with a non-empty analysis, and an empty  *)
(* questions list gives an empty plan.                                     *)
(***************************************************************************)
C28_PlanWellFormed ==
    (pc = "UnitDone" /\ i = 5 /\ ctx.errors = <<>>) =>
        LET plan == ctx.analysis_plan
        IN  /\ Len(plan) <= Len(ctx.questions)
            /\ \A k \in 1..Len(plan) :
                  /\ DOMAIN plan[k] = {"question", "analysis", "data_needed", "insight"}
                  /\ plan[k].question = ctx.questions[k]
                  /\ plan[k].analysis # ""
            /\ ctx.questions = <<>> => plan = <<>>

C28_Witness ==
    /\ pc = "UnitDone" /\ i = 5 /\ ctx.errors = <<>>
    /\ Len(ctx.questions) = 2 /\ Len(fetched.data) = 3 /\ Len(ctx.analysis_plan) = 2
    /\ fetched.data[2] = << PlanLine({"analysis:"}, ""), PlanLine({"tells us:"}, "trend") >>
    /\ ctx.analysis_plan[2].analysis = "Compare current levels to historical averages"
    /\ ctx.analysis_plan[2].insight = "trend"

(***************************************************************************)
(* C30: the Calculation stage reads the sentiment score from               *)
(* raw_data['fx_rates']['sentiment_score'] (default 50), not from          *)
(* raw_data['sentiment_score']: whenever fx_rates has no 'sentiment_score' *)
(* key, basic_metrics.sentiment_score is 50 and the interpretation is      *)
(* 'Neutral', for every raw_data.sentiment_score in 0..100.                *)
(***************************************************************************)
C30_SentimentFromRates ==
    (pc = "UnitDone" /\ i = 6 /\ ctx.errors = <<>>) =>
        LET m  == ctx.calculations["basic_metrics"]
            fx == ctx.raw_data.fx_rates
        IN  /\ "sentiment_score" \notin DOMAIN fx =>
                  /\ m["sentiment_score"] = 50
                  /\ m["sentiment_interpretation"] = "Neutral"
            /\ "sentiment_score" \in DOMAIN fx => m["sentiment_score"] = fx["sentiment_score"]

C30_Witness ==
    /\ pc = "UnitDone" /\ i = 6 /\ ctx.errors = <<>>
    /\ "sentiment_score" \notin DOMAIN ctx.raw_data.fx_rates
    /\ ctx.raw_data.fx_rates # EmptyDict
    /\ ctx.raw_data.sentiment_score = 90
    /\ ctx.calculations["basic_metrics"]["sentiment_score"] = 50
    /\ ctx.calculations["basic_metrics"]["sentiment_interpretation"] = "Neutral"

(***************************************************************************)
(* C29: run_partial starts from a fresh empty context and executes exactly *)
(* the stages whose class name is in the list, each once and in pipeline   *)
(* order whatever the order or repetition of the names; it applies no      *)
(* abort policy (a selected later stage is executed even when raw_data is  *)
(* empty or errors exceed 10), and an exception escaping a stage goes to   *)
(* the caller instead of being recorded.                                   *)
(***************************************************************************)
C29_RunPartial ==
    /\ [](/\ PartialExecuted \subseteq PartialWanted
          /\ \A j, k \in 1..Len(hist) : j < k => hist[j].stage < hist[k].stage
          /\ ~aborted
          /\ \A k \in 1..Len(ctx.errors) : ctx.errors[k].by # "pipeline"
          /\ pc = "PartialDone" => PartialExecuted = PartialWanted
          /\ pc \in {"PartialLoop", "PartialInStage"} =>
                PartialExecuted = {n \in PartialWanted : n <= i}
          /\ pc = "PartialRaised" => hist # <<>> /\ Last(hist).result = "escaped")
    /\ [][ /\ pc = "PartialNotStarted" => ctx' = PipelineContext
           /\ (pc = "PartialInStage" /\ Last(hist').result = "escaped") =>
                 /\ pc' = "PartialRaised"
                 /\ \A k \in 1..Len(ctx'.errors) :
                       ctx'.errors[k].stage = i => ctx'.errors[k].by = "stub"
           /\ (pc = "PartialInStage" /\ pc' = "PartialLoop") =>
                 Last(hist').result \in {"returned", "caught"}
         ]_vars

C29_Witness ==
    /\ pc = "PartialDone"
    /\ stages_to_run = Reverse(StageNames) \o <<"DataCollectionStage">>
    /\ Len(hist) = 8 /\ hist[1].stage = 1 /\ hist[1].result = "caught"
    /\ IsEmpty(ctx.raw_data)
    /\ Len(ctx.errors) > ErrorCeiling
    /\ hist[8].stage = 8 /\ hist[8].result = "returned" /\ ctx.final_report # <<>>
====
